---- MODULE Spec2Model ----
(***************************************************************************)
(* A model of daily-job-search-automation.py: one run of main(), i.e. the  *)
(* query loop of collect_jobs over the search provider, the deduplication  *)
(* and ranking of the results, and the single mail delivery at the end.    *)
(* The search provider and the mail transport are the environment: each    *)
(* provider response and the transport's verdict are chosen               *)
(* nondeterministically from small sets.                                   *)
(***************************************************************************)
EXTENDS Integers, Sequences, FiniteSets, TLC

VARIABLES
    pc,            \* position of the run: start, query, ingest, return, main, done, crashed
    env,           \* the set of required environment variables that are present
    role_i,        \* index of the current role in ROLES (outer loop)
    loc_i,         \* index of the current location in LOCATIONS (middle loop)
    query_i,       \* index of the current query of the pair (inner loop)
    response,      \* the provider's response to the query in progress
    results,       \* the list serpapi_search returned for the query in progress
    jobs,          \* collect_jobs' accumulating list of JobRecords
    seen_links,    \* collect_jobs' set of links already recorded
    main_jobs,     \* main's local `jobs`: what collect_jobs returned
    calls,         \* history: the (query, location) of every search invocation
    sleeps,        \* history: the number of time.sleep(1) calls performed
    discovery,     \* history: the records in discovery order (before the sort)
    firsts,        \* history: for each link, the first result that carried it
    budget,        \* provider responses with content the environment may still give
    mail_attempts, \* number of times the SMTP transport was invoked
    mail_sent,     \* the message the transport accepted: <<>> or <<[html, csv]>>
    log,           \* the kinds of log lines written so far
    exit_status    \* -1 while running, else the process exit status

vars == <<pc, env, role_i, loc_i, query_i, response, results, jobs, seen_links,
          main_jobs, calls, sleeps, discovery, firsts, budget, mail_attempts,
          mail_sent, log, exit_status>>

(***************************************************************************)
(* Bounds of the model.                                                    *)
(***************************************************************************)
\* Provider responses carrying an organic result list in one run.
MaxHits == 2
\* The same, in runs where the environment configuration varies.
MaxEnvHits == 1
\* Longest JobRecord sequence handed to send_email in the report runs.
MaxJobs == 52

(***************************************************************************)
(* Configuration.                                                          *)
(***************************************************************************)
ROLES == <<"software developer", "react js developer",
           "frontend developer", "react native developer">>

LOCATIONS == <<"Chennai", "India">>

EXPERIENCE_KEYWORDS == <<"fresher", "entry level", "junior", "0-1", "0-2",
                         "0-3", "1 year", "2 years", "3 years">>

OFFICIAL_KEYWORDS == <<"careers", "jobs", "workday", "myworkdayjobs",
                       "greenhouse", "lever", "ashby">>

MAX_RESULTS == 10

HTML_LIMIT == 50

RequiredEnv == {"SERPAPI_API_KEY", "SMTP_USER", "SMTP_PASS", "RECIPIENT_EMAIL"}

\* The three f-string templates of collect_jobs, as the suffix after
\* "{role} {location} ".
QuerySuffixes == <<"fresher", "junior", "0-3 years">>

CSV_HEADER == <<"role", "location", "title", "link", "source",
                "official_site", "experience_match", "snippet">>

(***************************************************************************)
(* Text helpers: str.lower() and the `in` substring test.                  *)
(***************************************************************************)
UpperChars == "ABCDEFGHIJKLMNOPQRSTUVWXYZ"
LowerChars == "abcdefghijklmnopqrstuvwxyz"

LowerChar(c) ==
    IF \E i \in 1..Len(UpperChars) : SubSeq(UpperChars, i, i) = c
    THEN LET i == CHOOSE k \in 1..Len(UpperChars) : SubSeq(UpperChars, k, k) = c
         IN  SubSeq(LowerChars, i, i)
    ELSE c

RECURSIVE Lower(_)
Lower(s) ==
    IF Len(s) = 0 THEN ""
    ELSE LowerChar(SubSeq(s, 1, 1)) \o Lower(SubSeq(s, 2, Len(s)))

Contains(s, k) ==
    \E i \in 1..(Len(s) - Len(k) + 1) : SubSeq(s, i, i + Len(k) - 1) = k

(***************************************************************************)
(* JSON values of the provider payload.                                    *)
(***************************************************************************)
JStr(s) == [t |-> "str", v |-> s]
JNull == [t |-> "null"]
JList(xs) == [t |-> "list", items |-> xs]
JObj(fields) == [t |-> "object", f |-> fields]

\* dict.get(key, default): the default only when the key is absent.
DictGet(d, key, default) == IF key \in DOMAIN d.f THEN d.f[key] ELSE default

\* Python truthiness of a str-or-None value.
Truthy(v) == v.t = "str" /\ v.v # ""

\* str(v) as an f-string interpolates it.
PyStr(v) == IF v.t = "null" THEN "None" ELSE v.v

(***************************************************************************)
(* The classifier.                                                         *)
(***************************************************************************)
experience_match(text) ==
    LET lowered == Lower(text)
    IN  \E i \in DOMAIN EXPERIENCE_KEYWORDS : Contains(lowered, EXPERIENCE_KEYWORDS[i])

is_official_site(url) ==
    LET lowered == Lower(url)
    IN  \E i \in DOMAIN OFFICIAL_KEYWORDS : Contains(lowered, OFFICIAL_KEYWORDS[i])

(***************************************************************************)
(* The provider's possible responses to one query.                         *)
(***************************************************************************)
LinkA == "https://acme.example/post/1"
LinkB == "https://boards.GREENHOUSE.io/acme"
LinkC == "https://news.ycombinator.com/item"
LinkD == "https://acme.example/Careers/7"
LinkE == "https://late.example/jobs/11"

Item(title, link, snippet, shown) ==
    JObj([title |-> JStr(title), link |-> JStr(link),
          snippet |-> JStr(snippet), displayed_link |-> JStr(shown)])

ItemA1 == Item("Junior React Developer", LinkA, "0-3 years", "acme.example")
ItemA2 == Item("Staff Engineer", LinkA, "10 years", "mirror.example")
ItemB == Item("Frontend Developer", LinkB, "Entry Level", "greenhouse.io")
ItemC == Item("Who is hiring", LinkC, "thread", "ycombinator.com")
ItemD == Item("React Native Developer", LinkD, "fresher", "acme.example")
ItemD2 == Item("React Native Lead", LinkD, "8 years", "acme.example")
ItemE == Item("Eleventh", LinkE, "junior", "late.example")
ItemNoLink == Item("No link", "", "junior", "nowhere.example")
\* an entry whose title is JSON null and whose displayed_link is absent
ItemNullTitle == JObj([title |-> JNull, link |-> JStr(LinkC), snippet |-> JStr("2 years")])
\* an entry whose link is JSON null
ItemNullLink == JObj([title |-> JStr("Null link"), link |-> JNull])
\* an entry with none of the four fields
ItemBare == JObj([position |-> JStr("3")])

Organic(items) == JObj([organic_results |-> JList(items)])

PayloadMix == Organic(<<ItemA1, ItemB, ItemC, ItemD>>)
PayloadDup == Organic(<<ItemA2, ItemA1, ItemNoLink, ItemD2>>)
PayloadNull == Organic(<<ItemNullTitle, ItemNullLink, ItemBare>>)
\* eleven entries: one more than MAX_RESULTS
PayloadLong == Organic(<<ItemB, ItemA1, ItemA1, ItemA1, ItemA1, ItemA1,
                         ItemA1, ItemA1, ItemA1, ItemA1, ItemE>>)
\* a JSON object without organic results, and one whose organic_results is no list
PayloadNoOrganic == JObj([search_information |-> JStr("empty")])
PayloadNotList == JObj([organic_results |-> JStr("none")])
\* JSON that parses but is not an object, and a list entry that is not an object
PayloadArray == JList(<<>>)
PayloadBadItem == Organic(<<JStr("ad")>>)

ContentPayloads == {PayloadMix, PayloadDup, PayloadNull, PayloadLong}
OtherPayloads == {PayloadNoOrganic, PayloadNotList, PayloadArray, PayloadBadItem}

\* requests.get raising, the timeout, raise_for_status raising, response.json() raising
FailureKinds == {"network_error", "timeout", "http_error", "invalid_json"}

Failed(kind) == [kind |-> kind]
Ok(data) == [kind |-> "ok", data |-> data]

Responses ==
    {Failed(k) : k \in FailureKinds} \cup {Ok(d) : d \in ContentPayloads \cup OtherPayloads}

HasContent(resp) == resp.kind = "ok" /\ resp.data \in ContentPayloads

(***************************************************************************)
(* serpapi_search: [raised, logged, results].  raised: an exception left   *)
(* the function; logged: logging.error was called.                         *)
(***************************************************************************)
Min(a, b) == IF a < b THEN a ELSE b

Normalize(item) ==
    [title   |-> DictGet(item, "title", JStr("")),
     link    |-> DictGet(item, "link", JStr("")),
     snippet |-> DictGet(item, "snippet", JStr("")),
     source  |-> DictGet(item, "displayed_link", JStr(""))]

Returned(rs) == [raised |-> FALSE, logged |-> FALSE, results |-> rs]
Caught == [raised |-> FALSE, logged |-> TRUE, results |-> <<>>]
Raised == [raised |-> TRUE, logged |-> FALSE, results |-> <<>>]

serpapi_search(resp) ==
    IF resp.kind # "ok" THEN Caught
    ELSE IF resp.data.t # "object" THEN Raised       \* data.get: AttributeError
    ELSE LET organic == DictGet(resp.data, "organic_results", JNull)
         IN  IF organic.t # "list" THEN Returned(<<>>)
             ELSE LET head == SubSeq(organic.items, 1, Min(Len(organic.items), MAX_RESULTS))
                  IN  IF \E i \in 1..Len(head) : head[i].t # "object"
                      THEN Raised                    \* item.get: AttributeError
                      ELSE Returned([i \in 1..Len(head) |-> Normalize(head[i])])

(***************************************************************************)
(* collect_jobs: the query of the current loop position, and the loop over *)
(* one query's results.                                                    *)
(***************************************************************************)
BuildQuery(r, l, q) ==
    [query    |-> ROLES[r] \o " " \o LOCATIONS[l] \o " " \o QuerySuffixes[q],
     location |-> LOCATIONS[l]]

MakeJob(role, location, r) ==
    [role             |-> role,
     location         |-> location,
     title            |-> r.title,
     link             |-> r.link,
     source           |-> r.source,
     official_site    |-> is_official_site(r.link.v),
     experience_match |-> experience_match(PyStr(r.title) \o " " \o PyStr(r.snippet)),
     snippet          |-> r.snippet]

\* a mutant of Skip: the seen-links test is lost
SkipNoDedup(link, seen) == ~Truthy(link)

\* `if not link or link in seen_links: continue`
Skip(link, seen) == ~Truthy(link) \/ link \in seen

RECURSIVE IngestFrom(_, _, _, _, _)
IngestFrom(rs, i, role, location, acc) ==
    IF i > Len(rs) THEN acc
    ELSE IF Skip(rs[i].link, acc.seen)
         THEN IngestFrom(rs, i + 1, role, location, acc)
         ELSE IngestFrom(rs, i + 1, role, location,
                         [jobs |-> Append(acc.jobs, MakeJob(role, location, rs[i])),
                          seen |-> acc.seen \cup {rs[i].link}])

(***************************************************************************)
(* jobs.sort(key=lambda x: x["official_site"], reverse=True).  list.sort   *)
(* is stable; with reverse=True it reverses the list, sorts it ascending   *)
(* and reverses the result, so that equal keys keep their order.           *)
(***************************************************************************)
Reverse(s) == [i \in 1..Len(s) |-> s[Len(s) + 1 - i]]

SortKey(job) == IF job.official_site THEN 1 ELSE 0

\* insert x behind every element whose key is not greater: a stable insertion
RECURSIVE InsertStable(_, _)
InsertStable(x, sorted) ==
    IF sorted = <<>> THEN <<x>>
    ELSE IF SortKey(Head(sorted)) <= SortKey(x)
         THEN <<Head(sorted)>> \o InsertStable(x, Tail(sorted))
         ELSE <<x>> \o sorted

RECURSIVE StableSortAscending(_)
StableSortAscending(s) ==
    IF s = <<>> THEN <<>>
    ELSE InsertStable(s[Len(s)], StableSortAscending(SubSeq(s, 1, Len(s) - 1)))

\* a mutant of SortOfficialFirst: sort ascending, then reverse
SortThenReverse(s) == Reverse(StableSortAscending(s))

SortOfficialFirst(s) == Reverse(StableSortAscending(Reverse(s)))

(***************************************************************************)
(* The report: the <li> entries of the HTML body and the rows of the CSV.  *)
(***************************************************************************)
\* what csv.writer writes for a field: None as the empty field, a bool by str()
CsvText(v) == IF v.t = "null" THEN "" ELSE v.v
CsvBool(b) == IF b THEN "True" ELSE "False"

CsvRow(r) ==
    <<r.role, r.location, CsvText(r.title), CsvText(r.link), CsvText(r.source),
      CsvBool(r.official_site), CsvBool(r.experience_match), CsvText(r.snippet)>>

\* a mutant of to_csv_bytes: the attachment is cut like the HTML body
CsvTruncated(rows) ==
    <<CSV_HEADER>> \o [i \in 1..Min(Len(rows), HTML_LIMIT) |-> CsvRow(rows[i])]

to_csv_bytes(rows) == <<CSV_HEADER>> \o [i \in 1..Len(rows) |-> CsvRow(rows[i])]

HtmlEntry(j) ==
    [href     |-> PyStr(j.link),
     text     |-> PyStr(j.title),
     location |-> j.location,
     badge    |-> IF j.official_site THEN "Official Site" ELSE "Job Link"]

\* the loop over jobs[:50]
RenderHtml(js) == [i \in 1..Min(Len(js), HTML_LIMIT) |-> HtmlEntry(js[i])]

(***************************************************************************)
(* Initial states.                                                         *)
(***************************************************************************)
NoResponse == [kind |-> "none"]

InitRun(present, hits) ==
    /\ pc = "start"
    /\ env = present
    /\ role_i = 1 /\ loc_i = 1 /\ query_i = 1
    /\ response = NoResponse
    /\ results = <<>>
    /\ jobs = <<>>
    /\ seen_links = {}
    /\ main_jobs = <<>>
    /\ calls = <<>>
    /\ sleeps = 0
    /\ discovery = <<>>
    /\ firsts = {}
    /\ budget = hits
    /\ mail_attempts = 0
    /\ mail_sent = <<>>
    /\ log = {}
    /\ exit_status = -1

\* a run with every required variable set
Init == InitRun(RequiredEnv, MaxHits)

\* a run with any subset of the required variables set
InitEnv == \E present \in SUBSET RequiredEnv : InitRun(present, MaxEnvHits)

\* the queries of the three nested loops, in the order the loops make them
AllQueries ==
    LET nl == Len(LOCATIONS)
        nq == Len(QuerySuffixes)
    IN  [n \in 1..(Len(ROLES) * nl * nq) |->
            BuildQuery(((n - 1) \div (nl * nq)) + 1,
                       (((n - 1) \div nq) % nl) + 1,
                       ((n - 1) % nq) + 1)]

\* the i-th record of a long discovery list: a distinct link per record
ReportJob(i, official) ==
    MakeJob(ROLES[1], LOCATIONS[1],
            [title   |-> JStr("Junior Developer " \o ToString(i)),
             link    |-> JStr((IF official THEN "https://co.example/Careers/"
                                           ELSE "https://agg.example/post/") \o ToString(i)),
             snippet |-> JStr("fresher"),
             source  |-> JStr("example")])

ReportPatterns == {"none", "all", "alternate"}

ReportInput(n, pattern) ==
    [i \in 1..n |-> ReportJob(i, \/ pattern = "all"
                                 \/ pattern = "alternate" /\ i % 2 = 0)]

\* collect_jobs has finished its loops with n distinct links discovered
InitReport ==
    \E n \in 0..MaxJobs, pattern \in ReportPatterns :
        /\ pc = "return"
        /\ env = RequiredEnv
        /\ role_i = Len(ROLES) /\ loc_i = Len(LOCATIONS) /\ query_i = Len(QuerySuffixes)
        /\ response = NoResponse
        /\ results = <<>>
        /\ jobs = ReportInput(n, pattern)
        /\ seen_links = {jobs[i].link : i \in 1..n}
        /\ main_jobs = <<>>
        /\ calls = AllQueries
        /\ sleeps = Len(AllQueries)
        /\ discovery = <<>>
        /\ firsts = {[link |-> jobs[i].link, role |-> jobs[i].role,
                      location |-> jobs[i].location, title |-> jobs[i].title,
                      source |-> jobs[i].source, snippet |-> jobs[i].snippet] :
                         i \in 1..n}
        /\ budget = 0
        /\ mail_attempts = 0
        /\ mail_sent = <<>>
        /\ log = {"Starting daily job search automation", "Searching"}
        /\ exit_status = -1

(***************************************************************************)
(* main and collect_jobs, step by step.                                    *)
(***************************************************************************)
\* main() is entered: no configuration is examined; collect_jobs starts.
MainStart ==
    /\ pc = "start"
    /\ pc' = "query"
    /\ log' = log \cup {"Starting daily job search automation"}
    /\ UNCHANGED <<env, role_i, loc_i, query_i, response, results, jobs, seen_links,
                   main_jobs, calls, sleeps, discovery, firsts, budget,
                   mail_attempts, mail_sent, exit_status>>

\* the first results of `rs` for links that no earlier result of the run carried
NewFirsts(rs, role, location, known) ==
    {[link |-> rs[i].link, role |-> role, location |-> location,
      title |-> rs[i].title, source |-> rs[i].source, snippet |-> rs[i].snippet] :
        i \in {k \in 1..Len(rs) :
                 /\ Truthy(rs[k].link)
                 /\ \A f \in known : f.link # rs[k].link
                 /\ \A m \in 1..(k - 1) : rs[m].link # rs[k].link}}

\* one call of serpapi_search for the current query.  An exception that
\* leaves serpapi_search leaves collect_jobs and main too: the interpreter
\* prints the traceback and exits with status 1.
Search(resp) ==
    /\ pc = "query"
    /\ HasContent(resp) => budget > 0
    /\ LET out == serpapi_search(resp)
       IN  /\ calls' = Append(calls, BuildQuery(role_i, loc_i, query_i))
           /\ response' = resp
           /\ budget' = IF HasContent(resp) THEN budget - 1 ELSE budget
           /\ log' = log \cup {"Searching"}
                         \cup (IF out.logged THEN {"SerpApi error"} ELSE {})
           /\ IF out.raised
              THEN /\ pc' = "crashed"
                   /\ exit_status' = 1
                   /\ UNCHANGED <<results, firsts>>
              ELSE /\ pc' = "ingest"
                   /\ results' = out.results
                   /\ firsts' = firsts \cup
                          NewFirsts(out.results, ROLES[role_i], LOCATIONS[loc_i], firsts)
                   /\ UNCHANGED exit_status
    /\ UNCHANGED <<env, role_i, loc_i, query_i, jobs, seen_links, main_jobs, sleeps,
                   discovery, mail_attempts, mail_sent>>

\* the loop over the query's results, the sleep, and the step of the three
\* nested loops to the next query.  The results of the finished iteration
\* are dead and are dropped.
Ingest ==
    /\ pc = "ingest"
    /\ LET acc == IngestFrom(results, 1, ROLES[role_i], LOCATIONS[loc_i],
                             [jobs |-> jobs, seen |-> seen_links])
       IN  /\ jobs' = acc.jobs
           /\ seen_links' = acc.seen
    /\ sleeps' = sleeps + 1
    /\ results' = <<>>
    /\ response' = NoResponse
    /\ IF query_i < Len(QuerySuffixes)
       THEN /\ query_i' = query_i + 1
            /\ UNCHANGED <<role_i, loc_i>>
            /\ pc' = "query"
       ELSE IF loc_i < Len(LOCATIONS)
       THEN /\ query_i' = 1
            /\ loc_i' = loc_i + 1
            /\ UNCHANGED role_i
            /\ pc' = "query"
       ELSE IF role_i < Len(ROLES)
       THEN /\ query_i' = 1
            /\ loc_i' = 1
            /\ role_i' = role_i + 1
            /\ pc' = "query"
       ELSE /\ UNCHANGED <<role_i, loc_i, query_i>>
            /\ pc' = "return"
    /\ UNCHANGED <<env, main_jobs, calls, discovery, firsts, budget, mail_attempts,
                   mail_sent, log, exit_status>>

\* the sort in place, the return to main, and main's log line
CollectReturn ==
    /\ pc = "return"
    /\ discovery' = jobs
    /\ jobs' = SortOfficialFirst(jobs)
    /\ main_jobs' = jobs'
    /\ log' = log \cup {"Total jobs found"}
    /\ pc' = "main"
    /\ UNCHANGED <<env, role_i, loc_i, query_i, response, results, seen_links, calls,
                   sleeps, firsts, budget, mail_attempts, mail_sent, exit_status>>

\* `if jobs: send_email(jobs)`: the message is built and handed to the SMTP
\* transport once; main has no handler, so a transport exception ends the
\* process with a traceback and status 1.
SendEmail(accepted) ==
    /\ pc = "main"
    /\ main_jobs # <<>>
    /\ mail_attempts' = mail_attempts + 1
    /\ IF accepted
       THEN /\ mail_sent' = <<[html |-> RenderHtml(main_jobs),
                               csv |-> to_csv_bytes(main_jobs)]>>
            /\ log' = log \cup {"Email sent successfully"}
            /\ pc' = "done"
            /\ exit_status' = 0
       ELSE /\ UNCHANGED <<mail_sent, log>>
            /\ pc' = "crashed"
            /\ exit_status' = 1
    /\ UNCHANGED <<env, role_i, loc_i, query_i, response, results, jobs, seen_links,
                   main_jobs, calls, sleeps, discovery, firsts, budget>>

\* the else branch of main
NoJobs ==
    /\ pc = "main"
    /\ main_jobs = <<>>
    /\ log' = log \cup {"No jobs found today"}
    /\ pc' = "done"
    /\ exit_status' = 0
    /\ UNCHANGED <<env, role_i, loc_i, query_i, response, results, jobs, seen_links,
                   main_jobs, calls, sleeps, discovery, firsts, budget,
                   mail_attempts, mail_sent>>

Next ==
    \/ MainStart
    \/ \E resp \in Responses : Search(resp)
    \/ Ingest
    \/ CollectReturn
    \/ \E accepted \in BOOLEAN : SendEmail(accepted)
    \/ NoJobs

Spec == Init /\ [][Next]_vars

SpecEnv == InitEnv /\ [][Next]_vars

NextReport ==
    \/ CollectReturn
    \/ \E accepted \in BOOLEAN : SendEmail(accepted)
    \/ NoJobs

SpecReport == InitReport /\ [][NextReport]_vars

(***************************************************************************)
(* Properties.                                                             *)
(***************************************************************************)
\* collect_jobs has returned to main
HasReturned == pc \in {"main", "done"} \/ (pc = "crashed" /\ mail_attempts > 0)

\* the run is over
Ended == pc \in {"done", "crashed"}

OnePerLink(js) ==
    /\ \A i \in 1..Len(js) : Truthy(js[i].link)
    /\ \A i, k \in 1..Len(js) : i # k => js[i].link # js[k].link

Origins(js) ==
    {[link |-> js[i].link, role |-> js[i].role, location |-> js[i].location,
      title |-> js[i].title, source |-> js[i].source, snippet |-> js[i].snippet] :
        i \in 1..Len(js)}

RecordOf(js, link) == js[CHOOSE i \in 1..Len(js) : js[i].link = JStr(link)]

HasLink(js, link) == \E i \in 1..Len(js) : js[i].link = JStr(link)

\* C1: the collection holds at most one record per distinct link, never one
\* for an empty link, and each record's role, location, title, source and
\* snippet are those of the first result that carried its link, in query
\* order; this holds of the accumulating list between queries and of the
\* sequence collect_jobs returns.
C1_FirstOccurrenceWins ==
    /\ OnePerLink(jobs)
    /\ pc # "ingest" => Origins(jobs) = firsts
    /\ HasReturned => OnePerLink(main_jobs) /\ Origins(main_jobs) = firsts

\* C1 witness: collect_jobs returned after link A came first with the title
\* "Staff Engineer" and again, in the same and in a later query of another
\* role/location pair, with another title, and link D likewise.
C1_Witness ==
    /\ HasReturned
    /\ Len(main_jobs) = 4
    /\ HasLink(main_jobs, LinkA) /\ HasLink(main_jobs, LinkB) /\ HasLink(main_jobs, LinkD)
    /\ RecordOf(main_jobs, LinkA).title = JStr("Staff Engineer")
    /\ RecordOf(main_jobs, LinkD).title = JStr("React Native Lead")
    /\ RecordOf(main_jobs, LinkA).role # RecordOf(main_jobs, LinkB).role

IsOfficial(j) == j.official_site
NotOfficial(j) == ~j.official_site

\* C2: the returned sequence is the discovery order with the official_site
\* records moved to the front, each group in its discovery order.
C2_StableOfficialFirst ==
    HasReturned =>
        main_jobs = SelectSeq(discovery, IsOfficial) \o SelectSeq(discovery, NotOfficial)

\* C2 witness: discovery order [A(false), B(true), C(false), D(true)] was
\* returned as [B, D, A, C].
C2_Witness ==
    /\ HasReturned
    /\ Len(discovery) = 4
    /\ [i \in 1..4 |-> discovery[i].official_site] = <<FALSE, TRUE, FALSE, TRUE>>
    /\ main_jobs = <<discovery[2], discovery[4], discovery[1], discovery[3]>>

\* the n-th query of a run, role-major, location-minor, template order
ExpectedQuery(n) ==
    LET role == ROLES[((n - 1) \div 6) + 1]
        location == IF ((n - 1) \div 3) % 2 = 0 THEN "Chennai" ELSE "India"
        suffix == CASE (n - 1) % 3 = 0 -> "fresher"
                    [] (n - 1) % 3 = 1 -> "junior"
                    [] OTHER -> "0-3 years"
    IN  [query |-> role \o " " \o location \o " " \o suffix, location |-> location]

\* C3: the searches made are always the first ones of the 24 expected, and a
\* run that has ended has made all 24, whatever the provider answered.
C3_AllQueriesInOrder ==
    /\ Len(calls) <= 24
    /\ \A n \in 1..Len(calls) : calls[n] = ExpectedQuery(n)
    /\ Ended => Len(calls) = 24

\* the provider call failed: an error, a timeout, a bad status, a body that
\* is no JSON, JSON that is no object, or an organic entry that is no object
IsFailure(resp) ==
    \/ resp.kind \in FailureKinds
    \/ /\ resp.kind = "ok"
       /\ \/ resp.data.t # "object"
          \/ /\ "organic_results" \in DOMAIN resp.data.f
             /\ resp.data.f.organic_results.t = "list"
             /\ \E i \in 1..Len(resp.data.f.organic_results.items) :
                    resp.data.f.organic_results.items[i].t # "object"

\* C4: a failed provider call yields the empty sequence for its query and
\* the run goes on to process it; no exception leaves collect_jobs.
C4_FailureYieldsEmpty ==
    /\ IsFailure(response) => pc = "ingest" /\ results = <<>>
    /\ pc = "crashed" => mail_attempts > 0

\* C5: with a required configuration value absent, the run ends at once with
\* status 1 and neither the search nor the mail collaborator is invoked.
C5_MissingConfigAborts ==
    env # RequiredEnv =>
        /\ calls = <<>>
        /\ mail_attempts = 0
        /\ pc # "start" => exit_status = 1

\* C6: mail is attempted at most once, only after all queries and only for a
\* non-empty returned sequence, and always for one; a run in which no query
\* yielded a result ends with the empty sequence, no mail and status 0.
C6_MailIffJobs ==
    /\ mail_attempts <= 1
    /\ mail_attempts = 1 => HasReturned /\ main_jobs # <<>> /\ Len(calls) = 24
    /\ pc = "done" => (mail_attempts = 1 <=> main_jobs # <<>>)
    /\ (Ended /\ firsts = {}) =>
           /\ HasReturned
           /\ main_jobs = <<>>
           /\ mail_attempts = 0
           /\ exit_status = 0

\* C7: after a failed delivery there has been one send attempt and the run
\* has completed normally.
C7_DeliveryFailureSurvived ==
    (mail_attempts > 0 /\ mail_sent = <<>>) =>
        /\ mail_attempts = 1
        /\ pc = "done"
        /\ exit_status = 0

\* C8: the accepted message renders the first min(n, 50) records in the HTML
\* body, in order, and its CSV has the fixed header row followed by one row
\* per record, all n of them, in the order collect_jobs returned them.
C8_HtmlCutCsvWhole ==
    mail_sent # <<>> =>
        LET msg == mail_sent[1]
            n == Len(main_jobs)
        IN  /\ Len(msg.html) = (IF n < 50 THEN n ELSE 50)
            /\ \A i \in 1..Len(msg.html) :
                   /\ msg.html[i].href = main_jobs[i].link.v
                   /\ msg.html[i].location = main_jobs[i].location
                   /\ msg.html[i].badge =
                          (IF main_jobs[i].official_site THEN "Official Site" ELSE "Job Link")
            /\ Len(msg.csv) = n + 1
            /\ msg.csv[1] = <<"role", "location", "title", "link", "source",
                              "official_site", "experience_match", "snippet">>
            /\ \A i \in 1..n :
                   /\ Len(msg.csv[i + 1]) = 8
                   /\ msg.csv[i + 1][1] = main_jobs[i].role
                   /\ msg.csv[i + 1][2] = main_jobs[i].location
                   /\ msg.csv[i + 1][3] = main_jobs[i].title.v
                   /\ msg.csv[i + 1][4] = main_jobs[i].link.v
                   /\ msg.csv[i + 1][5] = main_jobs[i].source.v
                   /\ msg.csv[i + 1][6] = (IF main_jobs[i].official_site THEN "True" ELSE "False")
                   /\ msg.csv[i + 1][7] = (IF main_jobs[i].experience_match THEN "True" ELSE "False")
                   /\ msg.csv[i + 1][8] = main_jobs[i].snippet.v

\* C8 witness: a message for more than 50 records, official and not, was accepted.
C8_Witness ==
    /\ mail_sent # <<>>
    /\ Len(main_jobs) > 50
    /\ \E i, k \in 1..Len(main_jobs) :
           main_jobs[i].official_site /\ ~main_jobs[k].official_site

\* C9: every search invocation is followed by exactly one delay: between
\* queries and after the run as many delays as searches, inside a query one
\* less, and 24 delays in a run that has ended.
C9_DelayAfterEverySearch ==
    /\ pc = "ingest" => Len(calls) = sleeps + 1
    /\ pc # "ingest" => Len(calls) = sleeps
    /\ Ended => sleeps = 24

IsText(v) == v.t = "str"

\* C10: serpapi_search returns at most 10 results, the head of the organic
\* list in order, each with text-valued title, link, snippet and source (the
\* empty string for a field that is absent or null), and so every record has
\* text-valued title, source and snippet.
C10_AtMostTenTextResults ==
    /\ Len(results) <= 10
    /\ \A i \in 1..Len(results) :
           LET item == response.data.f.organic_results.items[i].f
               Field(k) == IF k \in DOMAIN item /\ item[k].t # "null" THEN item[k] ELSE JStr("")
           IN  /\ results[i].title = Field("title")
               /\ results[i].link = Field("link")
               /\ results[i].snippet = Field("snippet")
               /\ results[i].source = Field("displayed_link")
    /\ \A i \in 1..Len(jobs) :
           IsText(jobs[i].title) /\ IsText(jobs[i].source) /\ IsText(jobs[i].snippet)

====
